---- MODULE Spec2Model ----
(***************************************************************************)
(* Model of src/lib.rs: monetary expressions (Money leaves combined by     *)
(* Plus and Times) and their evaluation against an exchange provider.      *)
(* Expression::reduce is recursive; the model runs it on an explicit call  *)
(* stack, one action per step of the code.  The amount type V is modelled  *)
(* by the integers with + and *, the currency type C by strings.           *)
(***************************************************************************)
EXTENDS Integers, Sequences, FiniteSets, TLC

VARIABLES input, provider, pc, stack, ret, result, call, log

vars == <<input, provider, pc, stack, ret, result, call, log>>

----------------------------------------------------------------------------
(* Bounds of the model *)

\* largest number of nodes of an input expression tree
MaxSize == 5
\* the provider calls of one evaluation that the history `log` keeps
MaxLog == 3

----------------------------------------------------------------------------
(* Data model *)

Currencies == {"USD", "RUB"}

\* amounts carried by the leaves of the enumerated input trees
Amounts == {0, 1}

\* factors of the enumerated Times nodes
Multipliers == {10}

\* rates a table provider may hold
Rates == {0, 60}

DifferentCurrencies == "DifferentCurrencies"

NoExchangeRate == "NoExchangeRate"

Error == {DifferentCurrencies, NoExchangeRate}

Money(v, c) == [value |-> v, currency |-> c]

USD(v) == Money(v, "USD")

RUB(v) == Money(v, "RUB")

Value(m) == [kind |-> "Value", money |-> m]

Plus(l, r) == [kind |-> "Plus", left |-> l, right |-> r]

Times(e, k) == [kind |-> "Times", inner |-> e, multiplier |-> k]

Ok(x) == [tag |-> "Ok", val |-> x]

Err(e) == [tag |-> "Err", err |-> e]

\* no value yet: a call that has not returned, a local that is not yet bound
Nil == [tag |-> "Nil", kind |-> "Nil"]

\* evaluate ended in unreachable!()
Panic == [tag |-> "Panic"]

(* The operators by which callers build expressions *)

\* impl Into<Expression> for Money
into(m) == Value(m)

\* impl Add for Money
add_money(a, b) == Plus(into(a), into(b))

\* impl Add<Money> for Expression
add_expr_money(e, m) == Plus(e, into(m))

\* impl Add for Expression
add_expr(a, b) == Plus(a, b)

\* impl Mul<V> for Expression
mul_expr(e, k) == Times(e, k)

\* mul with the factor added instead of multiplied
mul_adds(m, k) == Money(m.value + k, m.currency)

\* mul that returns the money unscaled
mul_forgets(m, k) == Money(m.value, m.currency)

\* impl Mul<V> for Money
mul(m, k) == Money(m.value * k, m.currency)

\* the sum that drops the right operand
try_add_same_left_only(self, other) == Money(self.value, self.currency)

\* Money::try_add, the branch of equal currencies
try_add_same(self, other) == Money(self.value + other.value, self.currency)

\* the test comparing the amounts instead of the currencies
same_amount(self, other) == self.value = other.value

\* Money::try_add, the test that chooses the branch
same_currency(self, other) == self.currency = other.currency

\* the pattern matching the wrong variant
is_plus(e) == e.kind = "Plus"

\* the pattern Expression::Value(..) of the loops of reduce
is_value(e) == e.kind = "Value"

\* the Times arm returning a Times node instead of the scaled leaf
scaled_unreduced(value, multiplier) == Ok(Times(Value(value), multiplier))

\* reduce, arm Times: the value the loop returns for a leaf
scaled(value, multiplier) == Ok(Value(mul(value, multiplier)))

\* the conversion asked into the left operand's own currency
target_currency_self(self, other) == self.currency

\* Money::try_add, the currency the provider is asked for
target_currency(self, other) == other.currency

(* The exchange provider *)

\* the table of tests::correctly_evaluates
TestRates == (<<"USD", "RUB">> :> [kind |-> "rate", rate |-> 60])
          @@ (<<"RUB", "USD">> :> [kind |-> "rate", rate |-> 0])

Pairs == {p \in Currencies \X Currencies : p[1] # p[2]}

\* rates of a provider that answers in the currency of the money it was given
StayRates == {0, 1}

\* What an implementation of MonetaryExchange answers for a pair it knows:
\* the product with a rate in the target currency (tests::Exchange), an
\* error of its choice, or the product with a rate in the currency the money
\* already has (the trait does not force the target currency on the answer).
Answers == {[kind |-> "rate", rate |-> r] : r \in Rates}
           \cup {[kind |-> "fail", err |-> DifferentCurrencies]}
           \cup {[kind |-> "stay", rate |-> r] : r \in StayRates}

Providers == UNION {[D -> Answers] : D \in SUBSET Pairs}

\* a provider with a silent default rate of 1 for a pair it does not know
exchange_default(p, money, to_currency) ==
    LET key == <<money.currency, to_currency>> IN
    IF key \notin DOMAIN p THEN Ok(Money(money.value, to_currency))
    ELSE LET a == p[key] IN
         CASE a.kind = "rate" -> Ok(Money(money.value * a.rate, to_currency))
           [] a.kind = "fail" -> Err(a.err)
           [] a.kind = "stay" -> Ok(Money(money.value * a.rate, money.currency))

\* a provider reporting a missing rate as DifferentCurrencies
exchange_wrong_error(p, money, to_currency) ==
    LET key == <<money.currency, to_currency>> IN
    IF key \notin DOMAIN p THEN Err(DifferentCurrencies)
    ELSE LET a == p[key] IN
         CASE a.kind = "rate" -> Ok(Money(money.value * a.rate, to_currency))
           [] a.kind = "fail" -> Err(a.err)
           [] a.kind = "stay" -> Ok(Money(money.value * a.rate, money.currency))

\* MonetaryExchange::exchange: a table of rates as in tests::Exchange, where
\* a pair without an entry is NoExchangeRate, extended by the other answers
\* the trait allows
exchange(p, money, to_currency) ==
    LET key == <<money.currency, to_currency>> IN
    IF key \notin DOMAIN p THEN Err(NoExchangeRate)
    ELSE LET a == p[key] IN
         CASE a.kind = "rate" -> Ok(Money(money.value * a.rate, to_currency))
           [] a.kind = "fail" -> Err(a.err)
           [] a.kind = "stay" -> Ok(Money(money.value * a.rate, money.currency))

(* Input expressions *)

Leaves == {Value(Money(v, c)) : v \in Amounts, c \in Currencies}

RECURSIVE ExprsOfSize(_)
ExprsOfSize(n) ==
    IF n = 1 THEN Leaves
    ELSE {Times(e, k) : e \in ExprsOfSize(n - 1), k \in Multipliers}
         \cup UNION {{Plus(l, r) : l \in ExprsOfSize(i), r \in ExprsOfSize(n - 1 - i)}
                     : i \in 1 .. (n - 2)}

\* the expressions of tests::correctly_evaluates
TestExprs == {add_money(USD(1), USD(9)), add_money(USD(5), USD(5)),
              add_money(USD(1), RUB(40)),
              add_expr_money(mul_expr(into(RUB(10)), 10), RUB(0))}

\* sums of two sums, the smallest trees with a Plus node on either side of a
\* Plus node
UnitLeaves == {Value(Money(1, c)) : c \in Currencies}

Balanced == {Plus(Plus(a, b), Plus(c, d)) :
             a \in UnitLeaves, b \in UnitLeaves, c \in UnitLeaves, d \in UnitLeaves}

Exprs == TestExprs \cup Balanced \cup UNION {ExprsOfSize(n) : n \in 1 .. MaxSize}

----------------------------------------------------------------------------
(* The call stack of reduce *)

\* a call of reduce on `node`, the node at `path` of the input tree
Frame(node, path) ==
    [node |-> node, path |-> path, pc |-> "match", again |-> FALSE,
     left |-> Nil, right |-> Nil, expression |-> Nil, self |-> Nil]

Top == stack[Len(stack)]

Pop == SubSeq(stack, 1, Len(stack) - 1)

SetTop(f) == [stack EXCEPT ![Len(stack)] = f]

Call(f, node, path) == Append(SetTop(f), Frame(node, path))

\* the right operand reduced before the left one
ReduceOrderSwapped == <<"right", "left">>

\* the order in which the Plus arm reduces its operands
ReduceOrder == <<"left", "right">>

\* the operand the Plus arm reduces: the child of the node, or in the loop
\* the local it re-reduces
Operand(f, side) ==
    IF f.again THEN (IF side = "left" THEN f.left ELSE f.right)
    ELSE (IF side = "left" THEN f.node.left ELSE f.node.right)

OperandPath(f, side) ==
    IF f.again THEN f.path
    ELSE Append(f.path, IF side = "left" THEN "L" ELSE "R")

Bind(f, side, e) ==
    IF side = "left" THEN [f EXCEPT !.left = e] ELSE [f EXCEPT !.right = e]

\* the history of returned provider calls, kept up to MaxLog entries
Logged(c) == IF Len(log) + Len(c) <= MaxLog THEN log \o c ELSE log

\* a step that neither calls the provider nor returns from it
NoCall == /\ call' = <<>>
          /\ log' = log

----------------------------------------------------------------------------
(* Initial state and steps *)

Init == /\ input \in Exprs
        /\ provider \in Providers
        /\ pc = "start"
        /\ stack = <<>>
        /\ ret = Nil
        /\ result = Nil
        /\ call = <<>>
        /\ log = <<>>

\* evaluate: the call self.reduce(exchange)
Evaluate ==
    /\ pc = "start"
    /\ pc' = "reduce"
    /\ stack' = <<Frame(input, <<>>)>>
    /\ NoCall
    /\ UNCHANGED <<input, provider, ret, result>>

\* reduce, arm Value
ReduceValue ==
    /\ pc = "reduce" /\ stack # <<>>
    /\ Top.pc = "match" /\ Top.node.kind = "Value"
    /\ ret' = Ok(Value(Top.node.money))
    /\ stack' = Pop
    /\ NoCall
    /\ UNCHANGED <<input, provider, pc, result>>

\* reduce, arm Plus: the call that reduces the first operand
ReducePlus ==
    /\ pc = "reduce" /\ stack # <<>>
    /\ Top.pc = "match" /\ Top.node.kind = "Plus"
    /\ stack' = Call([Top EXCEPT !.pc = "first"],
                     Operand(Top, ReduceOrder[1]), OperandPath(Top, ReduceOrder[1]))
    /\ NoCall
    /\ UNCHANGED <<input, provider, pc, ret, result>>

\* reduce, arm Plus: the first operand's reduce returned; `?`, then the call
\* that reduces the second operand
PlusFirst ==
    /\ pc = "reduce" /\ stack # <<>>
    /\ Top.pc = "first" /\ ret # Nil
    /\ IF ret.tag = "Err"
       THEN /\ stack' = Pop
            /\ ret' = ret
       ELSE /\ stack' = Call([Bind(Top, ReduceOrder[1], ret.val) EXCEPT !.pc = "second"],
                             Operand(Top, ReduceOrder[2]), OperandPath(Top, ReduceOrder[2]))
            /\ ret' = Nil
    /\ NoCall
    /\ UNCHANGED <<input, provider, pc, result>>

\* reduce, arm Plus: the second operand's reduce returned; `?`, then the loop
PlusSecond ==
    /\ pc = "reduce" /\ stack # <<>>
    /\ Top.pc = "second" /\ ret # Nil
    /\ IF ret.tag = "Err"
       THEN /\ stack' = Pop
            /\ ret' = ret
       ELSE /\ stack' = SetTop([Bind(Top, ReduceOrder[2], ret.val) EXCEPT !.pc = "loop"])
            /\ ret' = Nil
    /\ NoCall
    /\ UNCHANGED <<input, provider, pc, result>>

\* reduce, arm Plus: one turn of the loop: with two leaves the call of
\* try_add, otherwise the re-reduction of both locals
PlusLoop ==
    /\ pc = "reduce" /\ stack # <<>>
    /\ Top.pc = "loop" /\ Top.node.kind = "Plus"
    /\ IF is_value(Top.left) /\ is_value(Top.right)
       THEN stack' = SetTop([Top EXCEPT !.pc = "try_add", !.self = Top.left.money])
       ELSE LET f == [Top EXCEPT !.pc = "first", !.again = TRUE] IN
            stack' = Call(f, Operand(f, ReduceOrder[1]), OperandPath(f, ReduceOrder[1]))
    /\ NoCall
    /\ UNCHANGED <<input, provider, pc, ret, result>>

\* try_add with equal currencies: the sum, which the Plus arm returns as a leaf
TryAddSame ==
    /\ pc = "reduce" /\ stack # <<>>
    /\ Top.pc = "try_add"
    /\ same_currency(Top.self, Top.right.money)
    /\ ret' = Ok(into(try_add_same(Top.self, Top.right.money)))
    /\ stack' = Pop
    /\ NoCall
    /\ UNCHANGED <<input, provider, pc, result>>

\* try_add with different currencies: the call of the provider with self and
\* the other operand's currency
TryAddExchange ==
    /\ pc = "reduce" /\ stack # <<>>
    /\ Top.pc = "try_add"
    /\ ~same_currency(Top.self, Top.right.money)
    /\ stack' = SetTop([Top EXCEPT !.pc = "exchange"])
    /\ call' = <<[path |-> Top.path, left |-> Top.left.money, money |-> Top.self,
                  to |-> target_currency(Top.self, Top.right.money),
                  other |-> Top.right.money, outcome |-> Nil]>>
    /\ log' = log
    /\ UNCHANGED <<input, provider, pc, ret, result>>

\* the provider call returned: its error is returned through both `?`, its
\* money is the self of the next try_add
ExchangeReturn ==
    /\ pc = "reduce" /\ stack # <<>>
    /\ Top.pc = "exchange"
    /\ LET got == exchange(provider, call[1].money, call[1].to)
           c == <<[call[1] EXCEPT !.outcome = got]>>
       IN /\ call' = c
          /\ log' = Logged(c)
          /\ IF got.tag = "Err"
             THEN /\ stack' = Pop
                  /\ ret' = got
             ELSE /\ stack' = SetTop([Top EXCEPT !.self = got.val, !.pc = "try_add"])
                  /\ ret' = ret
    /\ UNCHANGED <<input, provider, pc, result>>

\* reduce, arm Times: the call that reduces the inner expression
ReduceTimes ==
    /\ pc = "reduce" /\ stack # <<>>
    /\ Top.pc = "match" /\ Top.node.kind = "Times"
    /\ stack' = Call([Top EXCEPT !.pc = "inner"], Top.node.inner, Append(Top.path, "I"))
    /\ NoCall
    /\ UNCHANGED <<input, provider, pc, ret, result>>

\* reduce, arm Times: a reduce of the expression returned; `?`, then the loop
TimesInner ==
    /\ pc = "reduce" /\ stack # <<>>
    /\ Top.pc = "inner" /\ ret # Nil
    /\ IF ret.tag = "Err"
       THEN /\ stack' = Pop
            /\ ret' = ret
       ELSE /\ stack' = SetTop([Top EXCEPT !.expression = ret.val, !.pc = "loop"])
            /\ ret' = Nil
    /\ NoCall
    /\ UNCHANGED <<input, provider, pc, result>>

\* reduce, arm Times: one turn of the loop: a leaf is scaled and returned,
\* anything else is reduced again
TimesLoop ==
    /\ pc = "reduce" /\ stack # <<>>
    /\ Top.pc = "loop" /\ Top.node.kind = "Times"
    /\ IF is_value(Top.expression)
       THEN /\ ret' = scaled(Top.expression.money, Top.node.multiplier)
            /\ stack' = Pop
       ELSE /\ ret' = ret
            /\ stack' = Call([Top EXCEPT !.pc = "inner", !.again = TRUE],
                             Top.expression, Top.path)
    /\ NoCall
    /\ UNCHANGED <<input, provider, pc, result>>

\* evaluate: reduce returned; `?`, the leaf's money, or unreachable!()
EvaluateReturn ==
    /\ pc = "reduce" /\ stack = <<>> /\ ret # Nil
    /\ pc' = "done"
    /\ result' = IF ret.tag = "Err" THEN ret
                 ELSE IF ret.val.kind = "Value" THEN Ok(ret.val.money)
                 ELSE Panic
    /\ NoCall
    /\ UNCHANGED <<input, provider, stack, ret>>

Next == \/ Evaluate
        \/ ReduceValue
        \/ ReducePlus
        \/ PlusFirst
        \/ PlusSecond
        \/ PlusLoop
        \/ TryAddSame
        \/ TryAddExchange
        \/ ExchangeReturn
        \/ ReduceTimes
        \/ TimesInner
        \/ TimesLoop
        \/ EvaluateReturn

Spec == Init /\ [][Next]_vars

\* evaluate runs on one thread that is never suspended
FairSpec == Spec /\ WF_vars(Next)

----------------------------------------------------------------------------
(* Properties *)

Done == pc = "done"

LastLog == log[Len(log)]

\* the provider answers every known pair in the requested currency or fails
AnswersInTarget(p) == \A k \in DOMAIN p : p[k].kind # "stay"

\* the provider's only failure is NoExchangeRate
FailsOnlyNoRate(p) == \A k \in DOMAIN p : p[k].kind # "fail"

RECURSIVE PlusOnly(_)
PlusOnly(e) ==
    CASE e.kind = "Value" -> TRUE
      [] e.kind = "Plus" -> PlusOnly(e.left) /\ PlusOnly(e.right)
      [] e.kind = "Times" -> FALSE

RECURSIVE LeafCurrencies(_)
LeafCurrencies(e) ==
    CASE e.kind = "Value" -> {e.money.currency}
      [] e.kind = "Plus" -> LeafCurrencies(e.left) \cup LeafCurrencies(e.right)
      [] e.kind = "Times" -> LeafCurrencies(e.inner)

RECURSIVE LeafSum(_)
LeafSum(e) ==
    CASE e.kind = "Value" -> e.money.value
      [] e.kind = "Plus" -> LeafSum(e.left) + LeafSum(e.right)
      [] e.kind = "Times" -> 0

\* the call at path p comes no later than the call at path q in a depth-first
\* post-order walk: the same node, a node below q, or a node in the left
\* subtree of a Plus node whose right subtree holds q
RECURSIVE PostOrder(_, _)
PostOrder(p, q) ==
    IF q = <<>> THEN TRUE
    ELSE IF p = <<>> THEN FALSE
    ELSE IF Head(p) = Head(q) THEN PostOrder(Tail(p), Tail(q))
    ELSE Head(p) = "L" /\ Head(q) = "R"

\* a step of try_add at a Plus node whose reduced operands differ in currency
\* and whose left operand the provider converts into the right one's currency
C1_Step ==
    (pc = "reduce" /\ stack # <<>> /\ Top.pc \in {"try_add", "exchange"}
     /\ Top.left.money.currency # Top.right.money.currency
     /\ exchange(provider, Top.left.money, Top.right.money.currency).tag = "Ok"
     /\ exchange(provider, Top.left.money, Top.right.money.currency).val.currency
            = Top.right.money.currency)
    => LET L == Top.left.money
           R == Top.right.money
           M == exchange(provider, L, R.currency).val
       IN /\ call' # <<>> => /\ call'[1].money = L
                             /\ call'[1].money # R
                             /\ call'[1].to = R.currency
          /\ Len(stack') < Len(stack)
                => ret' = Ok(Value(Money(M.value + R.value, R.currency)))

C1_Example ==
    (Done /\ input = add_money(USD(1), RUB(40))
     /\ <<"USD", "RUB">> \in DOMAIN provider
     /\ provider[<<"USD", "RUB">>] = [kind |-> "rate", rate |-> 60])
    => result = Ok(RUB(100))

\* C1: a Plus node whose reduced operands L and R differ in currency, with a
\* provider that converts L into a Money M in R's currency, passes L (never
\* R) to the provider with R's currency as target and reduces to the leaf
\* Money{M.value + R.value, R.currency}; with the rate USD->RUB = 60,
\* evaluate(USD(1) + RUB(40)) = RUB(100).
C1_MixedAddition == [][C1_Step]_vars /\ []C1_Example

C1_Witness ==
    /\ Done /\ input = add_money(USD(1), RUB(40)) /\ result = Ok(RUB(100))
    /\ Len(log) = 1 /\ log[1].money = USD(1) /\ log[1].to = "RUB"

\* C2: an evaluation in which a provider call failed returns the error of
\* that call; in particular evaluate(RUB(x) + USD(y)) with a provider that
\* has no rate RUB->USD returns Err(NoExchangeRate) and no Money.
C2_MissingRate ==
    Done =>
      /\ (log # <<>> /\ LastLog.outcome.tag = "Err") => result = LastLog.outcome
      /\ (\E i \in 1 .. Len(log) : log[i].outcome.tag = "Err") => result.tag = "Err"
      /\ (/\ input.kind = "Plus"
          /\ input.left.kind = "Value" /\ input.left.money.currency = "RUB"
          /\ input.right.kind = "Value" /\ input.right.money.currency = "USD"
          /\ <<"RUB", "USD">> \notin DOMAIN provider)
         => result = Err(NoExchangeRate)

C2_Witness ==
    /\ Done /\ result = Err(NoExchangeRate)
    /\ input = add_money(RUB(1), USD(1))
    /\ <<"RUB", "USD">> \notin DOMAIN provider
    /\ <<"USD", "RUB">> \in DOMAIN provider

\* C3: an expression built only from Plus nodes whose leaves all carry one
\* currency X evaluates, with any provider and without a provider call, to
\* Money{sum of the leaf amounts, X}.
C3_SameCurrencySum ==
    (Done /\ PlusOnly(input) /\ Cardinality(LeafCurrencies(input)) = 1)
    => /\ \E c \in LeafCurrencies(input) : result = Ok(Money(LeafSum(input), c))
       /\ log = <<>>

C3_Witness ==
    /\ Done /\ PlusOnly(input) /\ LeafCurrencies(input) = {"USD"}
    /\ input.kind = "Plus" /\ input.left.kind = "Plus"
    /\ result = Ok(USD(3))
    /\ DOMAIN provider # {}

\* C4: for leaves a and b of one currency and a factor k, (a + b) * k and
\* a * k + b * k evaluate to the same Money, a.value * k + b.value * k in
\* that currency.
C4_ScalingDistributes ==
    Done =>
      /\ (/\ input.kind = "Times" /\ input.inner.kind = "Plus"
          /\ input.inner.left.kind = "Value" /\ input.inner.right.kind = "Value"
          /\ input.inner.left.money.currency = input.inner.right.money.currency)
         => result = Ok(Money(input.inner.left.money.value * input.multiplier
                              + input.inner.right.money.value * input.multiplier,
                              input.inner.left.money.currency))
      /\ (/\ input.kind = "Plus"
          /\ input.left.kind = "Times" /\ input.right.kind = "Times"
          /\ input.left.multiplier = input.right.multiplier
          /\ input.left.inner.kind = "Value" /\ input.right.inner.kind = "Value"
          /\ input.left.inner.money.currency = input.right.inner.money.currency)
         => result = Ok(Money(input.left.inner.money.value * input.left.multiplier
                              + input.right.inner.money.value * input.left.multiplier,
                              input.left.inner.money.currency))

C4_Witness ==
    /\ Done
    /\ input = Plus(Times(Value(USD(1)), 10), Times(Value(USD(1)), 10))
    /\ result = Ok(USD(20))

\* a step of the Times arm: binding the reduced inner expression, or returning
C5_Step ==
    (pc = "reduce" /\ stack # <<>> /\ Top.node.kind = "Times")
    => /\ (Top.pc = "inner" /\ ret.tag = "Ok")
             => stack'[Len(stack)].expression = ret.val
       /\ Len(stack') < Len(stack)
             => IF ret'.tag = "Err"
                THEN Top.pc = "inner" /\ ret' = ret
                ELSE /\ Top.pc = "loop" /\ Top.expression.kind = "Value"
                     /\ ret' = Ok(Value(Money(Top.expression.money.value
                                                * Top.node.multiplier,
                                              Top.expression.money.currency)))
       /\ call' = <<>>

C5_Example ==
    (Done /\ input = add_expr_money(mul_expr(into(RUB(10)), 10), RUB(0)))
    => result = Ok(RUB(100))

\* C5: reducing Times(inner, k) returns the leaf that reducing inner gave,
\* with its amount multiplied by k and its currency unchanged, and fails only
\* with the error of reducing inner; evaluate(RUB(10) * 10 + RUB(0)) = RUB(100).
C5_Scaling == [][C5_Step]_vars /\ []C5_Example

C5_Witness ==
    /\ Done /\ input = add_expr_money(mul_expr(into(RUB(10)), 10), RUB(0))
    /\ result = Ok(RUB(100))

\* the place of a provider call: try_add at a Plus node with two leaves
C6_Place ==
    call' # <<>>
    => /\ pc = "reduce" /\ stack # <<>> /\ Top.node.kind = "Plus"
       /\ Top.pc = (IF call'[1].outcome = Nil THEN "try_add" ELSE "exchange")
       /\ Top.left.kind = "Value" /\ Top.right.kind = "Value"
       /\ call'[1].left = Top.left.money
       /\ call'[1].to = Top.right.money.currency
       /\ call'[1].money.currency # call'[1].to

\* C6 as stated: every provider call is made by the addition of two leaves of
\* differing currencies, and its arguments are the left leaf and a target
\* currency different from that leaf's currency.
C6_ArgumentIsLeftLeaf ==
    [][C6_Place /\ (call' # <<>> => call'[1].money = call'[1].left)]_vars

\* C6, amended: every provider call is made by the addition of two leaves of
\* differing currencies; its target is the right leaf's currency and differs
\* from the currency of its money argument, which is the left leaf or, on a
\* retry, the provider's previous answer for it.
C6_ProviderCalls ==
    [][/\ C6_Place
       /\ call' # <<>>
             => \/ call'[1].money = call'[1].left
                \/ /\ call # <<>> /\ call[1].path = call'[1].path
                   /\ \/ call[1].outcome = Ok(call'[1].money)
                      \/ call[1].money = call'[1].money]_vars

C6_Witness ==
    /\ Len(log) >= 2
    /\ log[1].path = log[2].path
    /\ log[1].money = log[1].left
    /\ log[2].money # log[2].left

\* C7 as stated: evaluate eventually returns, whatever the provider.
C7_Terminates == <>Done

\* C7, amended: with a provider whose every answer is in the requested
\* currency, evaluate eventually returns a Money or an error, after at most
\* one provider call per Plus node.
C7_TerminatesInTarget ==
    /\ AnswersInTarget(provider) => <>Done
    /\ [](AnswersInTarget(provider)
            => \A i, j \in 1 .. Len(log) : log[i].path = log[j].path => i = j)

C7_Witness ==
    /\ Done /\ AnswersInTarget(provider)
    /\ Len(log) = 3 /\ result.tag = "Ok"

\* C8 as stated: evaluate returns Ok(Money) or Err(NoExchangeRate).
C8_OnlyNoExchangeRate ==
    Done => (result.tag = "Ok" \/ result = Err(NoExchangeRate))

\* C8, amended: evaluate returns Ok(Money) or the error of its last provider
\* call; with a provider whose only failure is NoExchangeRate it returns
\* Ok(Money) or Err(NoExchangeRate).
C8_ErrorsOfProvider ==
    Done =>
      /\ result.tag \in {"Ok", "Err"}
      /\ result.tag = "Err" => (log # <<>> /\ result = LastLog.outcome)
      /\ FailsOnlyNoRate(provider)
            => (result.tag = "Ok" \/ result = Err(NoExchangeRate))

C8_Witness ==
    /\ Done /\ FailsOnlyNoRate(provider) /\ DOMAIN provider # {}
    /\ result = Err(NoExchangeRate)
    /\ input.kind = "Times"

\* C9: every Ok value reduce returns is a Value leaf, so evaluate never ends
\* in unreachable!() and no loop of reduce re-reduces its locals.
C9_ReduceReturnsLeaf ==
    /\ result # Panic
    /\ ret.tag = "Ok" => ret.val.kind = "Value"
    /\ \A i \in 1 .. Len(stack) : ~stack[i].again

C9_Witness ==
    /\ Done /\ result.tag = "Ok"
    /\ input.kind = "Times" /\ input.inner.kind = "Plus"
    /\ input.inner.left.kind = "Times"

\* C10: the provider calls of an evaluation are made in depth-first
\* post-order (left subtree, right subtree, the node's own conversion); a
\* failed call is the last call, and its error is the result.
C10_PostOrderFailFast ==
    /\ [](/\ \A i, j \in 1 .. Len(log) : i < j => PostOrder(log[i].path, log[j].path)
          /\ \A i \in 1 .. Len(log) : log[i].outcome.tag = "Err" => i = Len(log)
          /\ (Done /\ log # <<>> /\ LastLog.outcome.tag = "Err")
                => result = LastLog.outcome)
    /\ [][(log # <<>> /\ LastLog.outcome.tag = "Err") => call' = <<>>]_vars

C10_Witness ==
    /\ Done /\ Len(log) = 3
    /\ log[1].path = <<"L">> /\ log[2].path = <<"R">> /\ log[3].path = <<>>

====
